---- MODULE Spec2Model ----
(***************************************************************************)
(* Model of app/store/session.ts: one chat exchange (callSession) between  *)
(* a user and the LLM backend, with the message list of the session, the   *)
(* message objects it shares by reference with the streaming hooks, the    *)
(* notifications of the update callback and the ChatControllerPool.        *)
(*                                                                         *)
(* Strings are sequences of tokens, so that concatenation is \o and the    *)
(* empty string is << >>.  JavaScript objects are heap cells: a message    *)
(* object is an object id into msgs; an array is an immutable sequence of  *)
(* object ids together with the identity (ref) of the array.               *)
(*                                                                         *)
(* Spec lets exchanges overlap on any session.  SpecAlone runs one         *)
(* exchange with every kind of input on a session that has a history, and  *)
(* follows what callSession resolves or rejects to.  SpecPool drives the   *)
(* ChatControllerPool by itself.                                           *)
(***************************************************************************)
EXTENDS Integers, Sequences, FiniteSets, TLC

VARIABLES
    session,    \* session id -> ChatSession (list identity, items, index, bot)
    msgs,       \* heap: object id -> ChatMessage
    ex,         \* exchange -> the locals of one callSession invocation
    registry    \* ChatControllerPool: the registered entries

vars == <<session, msgs, ex, registry>>

(***************************************************************************)
(* Bounds of the model.                                                    *)
(***************************************************************************)
MaxExchanges == 2      \* callSession invocations
NumSessions == 2       \* sessions they may run on
MaxInitLen == 2        \* messages a session holds before the first exchange
MaxUpdates == 2        \* onUpdate events per exchange
MaxReturned == 2       \* messages handed to onFinish

Exchanges == 1..MaxExchanges
Sessions == 1..NumSessions

(***************************************************************************)
(* Strings.                                                                *)
(***************************************************************************)
EmptyString == << >>

\* String.prototype.includes for a one-token needle.
Includes(str, tok) == \E i \in 1..Len(str) : str[i] = tok

\* utils/format prettyObject({error: true, message}): a fenced JSON block.
prettyObject(message) == <<"{error:true,message:">> \o message \o <<"}">>

\* The fixed instruction of transformUserMessageForSending.
SummarizePrefix == <<"Summarize the following text briefly in 200 words or less:", "\n\n">>

\* The separator onError puts before the error block.
BlankLine == <<"\n\n">>

(***************************************************************************)
(* Optional fields: a flag is "undefined", "true" or "false".              *)
(***************************************************************************)
Undefined == "undefined"
BoolOf(b) == IF b THEN "true" ELSE "false"

\* URLDetail / URLDetailContent; hasContent tells whether the envelope
\* still carries the extracted body.
NoDetail == [present |-> FALSE, url |-> EmptyString, type |-> "", hasContent |-> FALSE, content |-> EmptyString]

\* The id of a message that has none (a RequestMessage).
NoId == << >>

(***************************************************************************)
(* Object identities.  nanoid() yields a fresh unique id: every message    *)
(* object an exchange creates gets an identity no other object has.        *)
(***************************************************************************)
InitObj(s, i) == s * 10 + i
UserObj(e) == e * 100 + 1
SavedObj(e) == e * 100 + 2
BotObj(e) == e * 100 + 3
NewObj(e, i) == e * 100 + 10 + i

\* nanoid(): the id string of the message object o.
nanoid(o) == <<o>>

\* Identities of the arrays an exchange allocates, and of a first list of a session.
InitRef(s) == s
ListRef(e, n) == e * 100 + n

(***************************************************************************)
(* Messages.  A ChatMessage is a RequestMessage (role, content) with an id *)
(* and the optional fields streaming, isError and urlDetail.               *)
(***************************************************************************)
\* Object spread {...base, ...override}: the override's keys win.
Spread(base, override) ==
    [f \in DOMAIN base |-> IF f \in DOMAIN override THEN override[f] ELSE base[f]]

\* A RequestMessage: role and content, none of the ChatMessage fields.
RequestMessage(role, content) ==
    [id |-> NoId, role |-> role, content |-> content,
     streaming |-> Undefined, isError |-> Undefined, urlDetail |-> NoDetail]

\* createMessage(override), the new object being o.
createMessage(o, override) ==
    Spread([id |-> nanoid(o), role |-> "user", content |-> EmptyString,
            streaming |-> Undefined, isError |-> Undefined, urlDetail |-> NoDetail],
           override)

(***************************************************************************)
(* Inputs of callSession and what the extractors answer.                   *)
(***************************************************************************)
PlainText == <<"hello">>
UrlText == <<"http://example.com/a">>
Contents == {PlainText, UrlText}

\* utils/url isURL.
isURL(content) == content = UrlText

\* FileWrap: the extension of the uploaded file; "none" is no file.
NoFile == "none"
Files == {NoFile, "pdf", "txt", "docx"}

\* The (content, uploadedFile) pairs callSession is called with: a text, a
\* URL, and a text beside each kind of file.
Inputs ==
    {<<content, NoFile>> : content \in Contents}
    \cup {<<PlainText, file>> : file \in Files}

ArticleBody == <<"ARTICLE", "BODY">>
Bodies == {ArticleBody}

\* What the awaited extraction can end with: a detail envelope carrying the
\* body, or an error with its message.
Fetched(detail) == [ok |-> TRUE, detail |-> detail, message |-> EmptyString]
Thrown(message) == [ok |-> FALSE, detail |-> NoDetail, message |-> message]

\* fetchSiteContent(url).
fetchSiteContent(url) ==
    {Fetched([present |-> TRUE, url |-> url, type |-> "text/html",
              hasContent |-> TRUE, content |-> b]) : b \in Bodies}
    \cup {Thrown(<<"fetch failed">>), Thrown(EmptyString)}

\* PDFFile / PlainTextFile getFileDetail().
getFileDetail(type) ==
    {Fetched([present |-> TRUE, url |-> <<"upload">>, type |-> type,
              hasContent |-> TRUE, content |-> b]) : b \in Bodies}
    \cup {Thrown(<<"parse failed">>)}

getDetailContentFromFile(file) ==
    CASE file = "pdf" -> getFileDetail("application/pdf")
      [] file = "txt" -> getFileDetail("text/plain")
      [] OTHER -> {Thrown(<<"Not supported file type">>)}

\* A detail envelope handed on with its body still in it.
KeepContent(detail) == detail

\* delete detail["content"].
DeleteContent(detail) == [detail EXCEPT !.hasContent = FALSE, !.content = EmptyString]

\* createTextInputMessage(content), given what fetchSiteContent answered.
createTextInputMessage(o, content, fetched) ==
    IF isURL(content)
    THEN createMessage(o, [role |-> "user", content |-> fetched.detail.content,
                           urlDetail |-> DeleteContent(fetched.detail)])
    ELSE createMessage(o, [role |-> "user", content |-> content])

\* createFileInputMessage(file), given what the extractor answered.
createFileInputMessage(o, fetched) ==
    createMessage(o, [role |-> "user", content |-> fetched.detail.content,
                      urlDetail |-> DeleteContent(fetched.detail)])

\* The outcomes of createUserMessage(content, uploadedFile): plain text never
\* suspends on an extractor and cannot fail.
ExtractionOutcomes(content, file) ==
    IF file # NoFile THEN getDetailContentFromFile(file)
    ELSE IF isURL(content) THEN fetchSiteContent(content)
    ELSE {Fetched(NoDetail)}

createUserMessage(o, content, file, fetched) ==
    IF file # NoFile THEN createFileInputMessage(o, fetched)
    ELSE createTextInputMessage(o, content, fetched)

\* A transform that forwards the message as it is.
forwardUserMessage(userMessage) == userMessage

transformUserMessageForSending(userMessage) ==
    IF ~userMessage.urlDetail.present THEN userMessage
    ELSE RequestMessage(userMessage.role, SummarizePrefix \o userMessage.content)

transformAssistantMessageForSending(message) ==
    IF message.role # "URL" THEN message
    ELSE RequestMessage("assistant", message.content)

(***************************************************************************)
(* Arrays and the heap.                                                    *)
(***************************************************************************)
\* clearContextIndex?: number, when the session has none.
NoIndex == -1

Max(a, b) == IF a > b THEN a ELSE b
Min(a, b) == IF a < b THEN a ELSE b

\* Array.prototype.slice(start): from start (counted from the end when
\* negative) to the end.
SliceFrom(items, start) ==
    LET n == Len(items)
        from == IF start < 0 THEN Max(n + start, 0) ELSE Min(start, n)
    IN  SubSeq(items, from + 1, n)

\* Array.prototype.slice(0, -k): all but the last k.
DropLast(items, k) == SubSeq(items, 1, Max(Len(items) - k, 0))

\* Array.prototype.slice(-1): the last element, as an array.
LastAsArray(items) == SliceFrom(items, -1)

\* Array.prototype.includes.
Contains(items, o) == \E i \in 1..Len(items) : items[i] = o

\* An array value: its identity and its elements.
List(ref, items) == [ref |-> ref, items |-> items]

\* Storing the object o in the heap.
Put(heap, o, value) ==
    [x \in DOMAIN heap \cup {o} |-> IF x = o THEN value ELSE heap[x]]

\* What callSession resolves to: nothing, one message object, or an array.
NoResult == [kind |-> "undefined", items |-> << >>]
MessageResult(o) == [kind |-> "message", items |-> <<o>>]
ArrayResult(items) == [kind |-> "array", items |-> items]
Pending == [kind |-> "pending", items |-> << >>]
\* callSession rejected: the caller gets an exception.
Exception == [kind |-> "exception", items |-> << >>]

(***************************************************************************)
(* ChatControllerPool.                                                     *)
(***************************************************************************)
\* The pool is a table from the key of (sessionId, messageId) to the handle:
\* a set of entries with at most one entry a key.
Key(sessionId, messageId) == <<sessionId, messageId>>
Entry(key, handle) == [key |-> key, handle |-> handle]

remove(pool, sessionId, messageId) ==
    {entry \in pool : entry.key # Key(sessionId, messageId)}

\* The handles a lookup of the key finds: none is a miss.
lookup(pool, sessionId, messageId) ==
    {entry.handle : entry \in {en \in pool : en.key = Key(sessionId, messageId)}}

\* A registration that leaves an earlier entry of the key in the table.
addControllerKeepsOld(pool, sessionId, messageId, handle) ==
    pool \cup {Entry(Key(sessionId, messageId), handle)}

addController(pool, sessionId, messageId, handle) ==
    remove(pool, sessionId, messageId) \cup {Entry(Key(sessionId, messageId), handle)}

\* botMessage.id ?? messageIndex
IdOrIndex(id, messageIndex) == IF id # NoId THEN id ELSE <<0, messageIndex>>

\* An onError that removes the entry of the fallback index.
ErrorMessageIdByIndex(botMessage, messageIndex) == IdOrIndex(NoId, messageIndex)

\* The message id each hook hands to the pool.
ControllerMessageId(botMessage, messageIndex) == IdOrIndex(botMessage.id, messageIndex)
FinishMessageId(botMessage, messageIndex) == botMessage.id
ErrorMessageId(botMessage, messageIndex) == IdOrIndex(botMessage.id, messageIndex)

(***************************************************************************)
(* The state after construction.                                           *)
(***************************************************************************)
\* The roles of the messages a session holds before the first exchange.
InitRoles == <<"user", "URL", "assistant">>
InitRole(i) == InitRoles[((i - 1) % Len(InitRoles)) + 1]
InitMessage(s, i) ==
    createMessage(InitObj(s, i), [role |-> InitRole(i), content |-> <<"old", ToString(i)>>])

\* Bot.context of the session's bot.
BotContext(s) ==
    IF s = 1 THEN <<RequestMessage("system", <<"You are helpful.">>)>>
    ELSE <<RequestMessage("system", <<"You are terse.">>),
           RequestMessage("URL", <<"http://example.com/doc">>)>>

\* createEmptySession(bot), with n earlier messages and clear-context index k.
createSession(s, n, k) ==
    [id |-> s, ref |-> InitRef(s), items |-> [i \in 1..n |-> InitObj(s, i)],
     clearContextIndex |-> k, bot |-> [context |-> BotContext(s)]]

IdleExchange ==
    [pc |-> "idle", session |-> 0, content |-> EmptyString, file |-> NoFile,
     userMessage |-> 0, savedUserMessage |-> 0, botMessage |-> 0,
     sendMessages |-> << >>, sentMessage |-> EmptyString, messageIndex |-> 0,
     result |-> NoResult, returned |-> Pending,
     controller |-> FALSE, stopped |-> FALSE, updates |-> 0,
     allocs |-> 0, notifs |-> << >>, overlapped |-> FALSE,
     error |-> EmptyString, count |-> 0, chatCalls |-> 0,
     stopContent |-> EmptyString, returnedIn |-> "idle", listedAtEnd |-> FALSE,
     delivered |-> << >>]

\* Every session as createEmptySession leaves it.
Init ==
    /\ session = [s \in Sessions |-> createSession(s, 0, NoIndex)]
    /\ msgs = [o \in {} |-> InitMessage(1, 1)]
    /\ ex = [e \in Exchanges |-> IdleExchange]
    /\ registry = {}

\* Session 1 after earlier exchanges: n messages, and a clear-context index
\* that is unset or one of 0..n.
InitHistory ==
    /\ \E n \in 0..MaxInitLen : \E k \in {NoIndex} \cup 0..n :
          /\ session = [s \in Sessions |->
                          IF s = 1 THEN createSession(s, n, k)
                          ELSE createSession(s, 0, NoIndex)]
          /\ msgs = [o \in {InitObj(1, i) : i \in 1..n} |->
                          InitMessage(1, o - InitObj(1, 0))]
    /\ ex = [e \in Exchanges |-> IdleExchange]
    /\ registry = {}

\* A hook that does not call the update callback.
NotifiedNever(notifs, list) == notifs

\* callbacks.onUpdateMessages(list): the calls the exchange has made, each
\* recorded by the identity of the array it passed.
Notified(notifs, list) == Append(notifs, list.ref)

(***************************************************************************)
(* callSession.                                                            *)
(***************************************************************************)
\* The exchange is between its call and its end.
InFlight(e) == ex[e].pc \in {"extracting", "streaming"}

\* Every exchange in flight on the session s learns that it ran beside another one.
MarkOverlap(exs, s) ==
    LET live == {o \in Exchanges : exs[o].pc \in {"extracting", "streaming"} /\ exs[o].session = s}
    IN  [o \in Exchanges |->
            IF o \in live /\ Cardinality(live) > 1
            THEN [exs[o] EXCEPT !.overlapped = TRUE] ELSE exs[o]]

\* callSession(session, content, callbacks, uploadedFile) up to its first
\* await: the call to createUserMessage.
Call(e, s, content, file) ==
    /\ ex[e].pc = "idle"
    /\ \A o \in Exchanges : o < e => ex[o].pc # "idle"
    /\ ex' = MarkOverlap([ex EXCEPT ![e] = [@ EXCEPT !.pc = "extracting", !.session = s,
                                                     !.content = content, !.file = file]], s)
    /\ UNCHANGED <<session, msgs, registry>>

\* The message of the error callSession caught.
ErrorText(message) == IF message # EmptyString THEN message ELSE <<"Invalid user message">>

\* An error message built without its role.
ErrorBotMessageNoRole(o, userMessage, message) ==
    createMessage(o, [id |-> userMessage.id \o <<1>>,
                      content |-> prettyObject(ErrorText(message))])

\* The bot message of the error exchange: its id is userMessage.id + 1.
ErrorBotMessage(o, userMessage, message) ==
    createMessage(o, [role |-> "assistant", id |-> userMessage.id \o <<1>>,
                      content |-> prettyObject(ErrorText(message))])

\* createUserMessage threw: the catch block.
ExtractFailed(e, fetched) ==
    LET x == ex[e]
        s == x.session
        userMessage == createMessage(UserObj(e), [role |-> "user", content |-> x.content])
        botMessage == ErrorBotMessage(BotObj(e), userMessage, fetched.message)
        messages == List(ListRef(e, x.allocs + 1),
                         session[s].items \o <<UserObj(e), BotObj(e)>>)
    IN  /\ x.pc = "extracting"
        /\ fetched \in ExtractionOutcomes(x.content, x.file)
        /\ ~fetched.ok
        /\ msgs' = Put(Put(msgs, UserObj(e), userMessage), BotObj(e), botMessage)
        /\ session' = [session EXCEPT ![s].ref = messages.ref, ![s].items = messages.items]
        /\ ex' = [ex EXCEPT ![e] = [@ EXCEPT !.pc = "rejected",
                                             !.error = fetched.message,
                                             !.userMessage = UserObj(e),
                                             !.botMessage = BotObj(e),
                                             !.allocs = @ + 1,
                                             !.notifs = Notified(@, messages),
                                             !.result = MessageResult(BotObj(e)),
                                             !.returned = MessageResult(BotObj(e)),
                                             !.returnedIn = "rejected"]]
        /\ UNCHANGED registry

\* A window that ignores the clear-context index.
allMessages(sess) == sess.items

\* The messages the exchange takes its history from: all of them when the
\* session has no (or a zero) clearContextIndex, else those from it onward.
recentMessages(sess) ==
    IF sess.clearContextIndex = NoIndex \/ sess.clearContextIndex = 0
    THEN sess.items
    ELSE SliceFrom(sess.items, sess.clearContextIndex)

\* sendMessages: the context prompts, then the recent messages, each through
\* transformAssistantMessageForSending.
BuildSendMessages(sess, heap) ==
    LET recent == recentMessages(sess)
    IN  sess.bot.context
        \o [i \in 1..Len(recent) |-> transformAssistantMessageForSending(heap[recent[i]])]

\* The placeholder bot message.
Placeholder(o) == createMessage(o, [role |-> "assistant", streaming |-> "true"])

\* A saved message that keeps the extracted text.
SavedUserMessageAsBuilt(userMessage, content) == userMessage

\* savedUserMessage = {...userMessage, content}
SavedUserMessage(userMessage, content) == Spread(userMessage, [content |-> content])

\* The list callSession stores once the user message is built.
AppendPair(items, saved, bot) == items \o <<saved, bot>>

\* createUserMessage resolved: callSession from the placeholder to the call
\* of api.chat.
Send(e, fetched) ==
    LET x == ex[e]
        s == x.session
        userMessage == createUserMessage(UserObj(e), x.content, x.file, fetched)
        botMessage == Placeholder(BotObj(e))
        savedUserMessage == SavedUserMessage(userMessage, x.content)
        messages == List(ListRef(e, x.allocs + 1),
                         AppendPair(session[s].items, SavedObj(e), BotObj(e)))
    IN  /\ x.pc = "extracting"
        /\ fetched \in ExtractionOutcomes(x.content, x.file)
        /\ fetched.ok
        /\ msgs' = Put(Put(Put(msgs, UserObj(e), userMessage), BotObj(e), botMessage),
                       SavedObj(e), savedUserMessage)
        /\ session' = [session EXCEPT ![s].ref = messages.ref, ![s].items = messages.items]
        /\ ex' = [ex EXCEPT ![e] = [@ EXCEPT
                    !.pc = "streaming",
                    !.userMessage = UserObj(e),
                    !.savedUserMessage = SavedObj(e),
                    !.botMessage = BotObj(e),
                    !.sendMessages = BuildSendMessages(session[s], msgs),
                    !.sentMessage = transformUserMessageForSending(userMessage).content,
                    !.messageIndex = Len(session[s].items) + 1,
                    !.chatCalls = @ + 1,
                    !.allocs = @ + 1,
                    !.notifs = Notified(@, messages)]]
        /\ UNCHANGED registry

(***************************************************************************)
(* The hooks api.chat calls.  The backend calls onController at most once  *)
(* and before the first onUpdate, then onUpdate any number of times, then  *)
(* one of onFinish and onError; once its handle was invoked it only        *)
(* answers with an error that says "aborted".                              *)
(***************************************************************************)
Partials == {EmptyString, <<"Hi">>}
\* A longer partial, delivered to an exchange that runs alone.
LongerPartials == {<<"Hi", " there">>}

AbortText == <<"The user ", "aborted", " a request.">>
ErrorMessages == {<<"Network error">>, AbortText}

ReturnedRoles == <<"user", "assistant", "memory">>
ReturnedRole(i) == ReturnedRoles[((i - 1) % Len(ReturnedRoles)) + 1]
\* The n messages the backend hands to onFinish.
Returned(n) == [i \in 1..n |-> [role |-> ReturnedRole(i), content |-> <<"reply", ToString(i)>>]]

\* The list a hook passes to callbacks.onUpdateMessages.
UpdateSnapshot(e, sess, fresh) == List(fresh, sess.items)
ErrorSnapshot(e, sess, fresh) == List(sess.ref, sess.items)

onController(e) ==
    LET x == ex[e]
    IN  /\ x.pc = "streaming"
        /\ ~x.controller
        /\ x.updates = 0
        /\ ~x.stopped
        /\ registry' = addController(registry, session[x.session].id,
                          ControllerMessageId(msgs[x.botMessage], x.messageIndex), e)
        /\ ex' = [ex EXCEPT ![e].controller = TRUE]
        /\ UNCHANGED <<session, msgs>>

\* An onUpdate that stores whatever it is handed.
UpdatedContentAlways(content, message) == message

\* botMessage.content after onUpdate(message).
UpdatedContent(content, message) == IF message # EmptyString THEN message ELSE content

onUpdate(e, message) ==
    LET x == ex[e]
        botMessage == msgs[x.botMessage]
        snapshot == UpdateSnapshot(e, session[x.session], ListRef(e, x.allocs + 1))
    IN  /\ x.pc = "streaming"
        /\ ~x.stopped
        /\ x.updates < MaxUpdates
        /\ msgs' = [msgs EXCEPT ![x.botMessage] =
                      [@ EXCEPT !.streaming = "true",
                                !.content = UpdatedContent(botMessage.content, message)]]
        /\ ex' = [ex EXCEPT ![e] = [@ EXCEPT !.updates = @ + 1,
                                             !.delivered = Append(@, message),
                                             !.allocs = @ + 1,
                                             !.notifs = Notified(@, snapshot)]]
        /\ UNCHANGED <<session, registry>>

\* A splice that drops the placeholder alone.
FinishSpliceDropsOne(items, newChatMessages) == DropLast(items, 1) \o newChatMessages

\* A splice that removes one message too many.
FinishSpliceDropsThree(items, newChatMessages) == DropLast(items, 3) \o newChatMessages

\* A splice that removes nothing.
FinishSpliceKeepsAll(items, newChatMessages) == items \o newChatMessages

\* session.messages.slice(0, -2).concat(newChatMessages)
FinishSplice(items, newChatMessages) == DropLast(items, 2) \o newChatMessages

\* result = newChatMessages.slice(-1)
FinishResult(newChatMessages) == ArrayResult(LastAsArray(newChatMessages))

onFinish(e, n) ==
    LET x == ex[e]
        s == x.session
        newMessages == Returned(n)
        newChatMessages == [i \in 1..n |-> NewObj(e, i)]
        messages == List(ListRef(e, x.allocs + 1),
                         FinishSplice(session[s].items, newChatMessages))
    IN  /\ x.pc = "streaming"
        /\ ~x.stopped
        /\ msgs' = [o \in DOMAIN msgs \cup {NewObj(e, i) : i \in 1..n} |->
                      IF o \in DOMAIN msgs THEN msgs[o]
                      ELSE createMessage(o, newMessages[o - NewObj(e, 0)])]
        /\ session' = [session EXCEPT ![s].ref = messages.ref, ![s].items = messages.items]
        /\ registry' = remove(registry, session[s].id,
                              FinishMessageId(msgs[x.botMessage], x.messageIndex))
        /\ ex' = [ex EXCEPT ![e] = [@ EXCEPT !.pc = "finished",
                                             !.count = n,
                                             !.allocs = @ + 1,
                                             !.notifs = Notified(@, messages),
                                             !.result = FinishResult(newChatMessages)]]

\* isAborted
IsAborted(message) == Includes(message, "aborted")

\* An onError that flags every message there is.
ErrorFlaggedAll(x) == DOMAIN msgs

\* The message objects onError flags: userMessage and botMessage.
ErrorFlagged(x) == {x.userMessage, x.botMessage}

onError(e, message) ==
    LET x == ex[e]
        s == x.session
        botMessage == msgs[x.botMessage]
        flag == BoolOf(~IsAborted(message))
        snapshot == ErrorSnapshot(e, session[s], ListRef(e, x.allocs + 1))
    IN  /\ x.pc = "streaming"
        /\ x.stopped => IsAborted(message)
        /\ msgs' = [o \in DOMAIN msgs |->
                      LET flagged == IF o \in ErrorFlagged(x)
                                     THEN [msgs[o] EXCEPT !.isError = flag] ELSE msgs[o]
                      IN  IF o = x.botMessage
                          THEN [flagged EXCEPT
                                  !.content = botMessage.content \o BlankLine
                                              \o prettyObject(message),
                                  !.streaming = "false"]
                          ELSE flagged]
        /\ registry' = remove(registry, session[s].id,
                              ErrorMessageId(botMessage, x.messageIndex))
        /\ ex' = [ex EXCEPT ![e] = [@ EXCEPT !.pc = "failed",
                                             !.listedAtEnd = Contains(session[s].items, x.botMessage),
                                             !.error = message,
                                             !.notifs = Notified(@, snapshot),
                                             !.result = MessageResult(x.botMessage)]]
        /\ UNCHANGED session

\* await api.chat(...) resolved: callSession returns result.
ChatReturn(e) ==
    LET x == ex[e]
    IN  /\ x.pc \in {"streaming", "finished", "failed"}
        /\ x.returned = Pending
        /\ ex' = [ex EXCEPT ![e] = [@ EXCEPT !.returned = x.result, !.returnedIn = x.pc]]
        /\ UNCHANGED <<session, msgs, registry>>

\* await api.chat(...) rejected: no try surrounds it, callSession rejects.
ChatThrows(e) ==
    LET x == ex[e]
    IN  /\ x.pc \in {"streaming", "finished", "failed"}
        /\ x.returned = Pending
        /\ ex' = [ex EXCEPT ![e] = [@ EXCEPT !.returned = Exception, !.returnedIn = "threw"]]
        /\ UNCHANGED <<session, msgs, registry>>

\* A caller finds the handle of the exchange in the pool and invokes it.
Stop(e) ==
    LET x == ex[e]
    IN  /\ x.pc = "streaming"
        /\ ~x.stopped
        /\ Entry(Key(session[x.session].id, msgs[x.botMessage].id), e) \in registry
        /\ ex' = [ex EXCEPT ![e] = [@ EXCEPT !.stopped = TRUE,
                                             !.stopContent = msgs[x.botMessage].content]]
        /\ UNCHANGED <<session, msgs, registry>>

\* What the backend and the callers do with an exchange once it is called.
Run(e) ==
    \/ \E fetched \in ExtractionOutcomes(ex[e].content, ex[e].file) : ExtractFailed(e, fetched)
    \/ \E fetched \in ExtractionOutcomes(ex[e].content, ex[e].file) : Send(e, fetched)
    \/ onController(e)
    \/ \E message \in Partials : onUpdate(e, message)
    \/ \E n \in 0..MaxReturned : onFinish(e, n)
    \/ \E message \in ErrorMessages : onError(e, message)
    \/ Stop(e)

\* Exchanges that overlap freely, on any session: a text, a URL or a file of
\* an unsupported type.  What callSession resolves to is left to SpecAlone:
\* ChatReturn writes ex[e].returned alone, which no action reads.
OverlapInputs == {<<PlainText, NoFile>>, <<UrlText, NoFile>>, <<PlainText, "docx">>}

Next ==
    \/ \E e \in Exchanges, s \in Sessions, input \in OverlapInputs :
          Call(e, s, input[1], input[2])
    \/ \E e \in Exchanges : Run(e)

Spec == Init /\ [][Next]_vars

\* One exchange, with every input, on a session that has a history.
NextAlone ==
    \/ \E s \in Sessions, input \in Inputs : Call(1, s, input[1], input[2])
    \/ Run(1)
    \/ \E message \in LongerPartials : onUpdate(1, message)
    \/ ChatReturn(1)
    \/ ChatThrows(1)

SpecAlone == InitHistory /\ [][NextAlone]_vars

(***************************************************************************)
(* The pool by itself: any caller registers and removes handles under the  *)
(* keys of any session, with a message id or a fallback index.             *)
(***************************************************************************)
PoolMessageIds == {nanoid(BotObj(1)), IdOrIndex(NoId, 1)}
Handles == 0..MaxExchanges

PoolAdd(sessionId, messageId, handle) ==
    /\ registry' = addController(registry, sessionId, messageId, handle)
    /\ UNCHANGED <<session, msgs, ex>>

PoolRemove(sessionId, messageId) ==
    /\ registry' = remove(registry, sessionId, messageId)
    /\ UNCHANGED <<session, msgs, ex>>

NextPool ==
    \/ \E s \in Sessions, messageId \in PoolMessageIds, handle \in Handles :
          PoolAdd(session[s].id, messageId, handle)
    \/ \E s \in Sessions, messageId \in PoolMessageIds :
          PoolRemove(session[s].id, messageId)

SpecPool == Init /\ [][NextPool]_vars

(***************************************************************************)
(* The properties.                                                         *)
(***************************************************************************)
Terminal(e) == ex[e].pc \in {"finished", "failed", "rejected"}

\* The steps of the exchange e.
SendStep(e) == ex[e].pc = "extracting" /\ ex'[e].pc = "streaming"
RejectStep(e) == ex[e].pc = "extracting" /\ ex'[e].pc = "rejected"
FinishStep(e) == ex[e].pc = "streaming" /\ ex'[e].pc = "finished"
ErrorStep(e) == ex[e].pc = "streaming" /\ ex'[e].pc = "failed"

\* C1: when onFinish fires with N messages for an exchange that ran beside no
\* other exchange of its session, the list it finds ends with the saved
\* user message and the placeholder of the exchange, and the list it leaves
\* is that list without these two, followed by the N normalized messages
\* (new objects with the returned roles and contents) in the returned
\* order: its length is the former length - 2 + N.
C1_FinishReplacesPair ==
    [][\A e \in Exchanges :
         (FinishStep(e) /\ ~ex[e].overlapped) =>
            LET s == ex[e].session
                before == session[s].items
                after == session'[s].items
                n == ex'[e].count
                kept == Len(before) - 2
            IN  /\ kept >= 0
                /\ before[kept + 1] = ex[e].savedUserMessage
                /\ before[kept + 2] = ex[e].botMessage
                /\ Len(after) = kept + n
                /\ \A i \in 1..kept : after[i] = before[i]
                /\ \A i \in 1..n :
                      /\ after[kept + i] \notin DOMAIN msgs
                      /\ \A j \in 1..n : after[kept + i] = after[kept + j] => i = j
                      /\ msgs'[after[kept + i]].role = Returned(n)[i].role
                      /\ msgs'[after[kept + i]].content = Returned(n)[i].content
                      /\ msgs'[after[kept + i]].id = nanoid(after[kept + i])]_vars

\* An exchange that ran alone on its session, after an earlier one left
\* messages there, has finished with MaxReturned messages.
C1_Witness ==
    \E e \in Exchanges :
        /\ ex[e].pc = "finished" /\ ~ex[e].overlapped
        /\ ex[e].count = MaxReturned
        /\ Len(session[ex[e].session].items) > MaxReturned

\* C2: after onError the user message the session holds for the exchange and
\* its placeholder both have isError = true when the error is no abort, and
\* neither has when the error text contains "aborted".
C2_BothFlagged ==
    \A e \in Exchanges :
        ex[e].pc = "failed" =>
            LET user == msgs[ex[e].savedUserMessage].isError
                bot == msgs[ex[e].botMessage].isError
            IN  IF Includes(ex[e].error, "aborted")
                THEN user # "true" /\ bot # "true"
                ELSE user = "true" /\ bot = "true"

\* C3: once an exchange has ended, the pool holds no entry under its key
\* (session id, id of its bot message) and none with its handle; an
\* exchange that failed at extraction never had one.
C3_NoLeak ==
    \A e \in Exchanges :
        /\ Terminal(e) =>
              \A entry \in registry :
                  /\ entry.handle # e
                  /\ entry.key # <<session[ex[e].session].id, msgs[ex[e].botMessage].id>>
        /\ ex[e].pc = "rejected" => ~ex[e].controller
        /\ (ex[e].pc = "streaming" /\ ex[e].controller) =>
              [key |-> <<session[ex[e].session].id, msgs[ex[e].botMessage].id>>,
               handle |-> e] \in registry

\* An exchange whose onController fired has ended with an error while the
\* handle of another exchange is still registered.
C3_Witness ==
    \E e \in Exchanges :
        /\ ex[e].pc = "failed" /\ ex[e].controller
        /\ registry # {}

\* C4: when building the user message fails, the exchange calls the backend
\* never and registers nothing; in that one step it stores a new list, the
\* former one followed by a user message with the raw input and an
\* assistant message with the structured error, notifies once with that
\* list, and returns that assistant message; nothing happens to it later.
C4_ExtractionFailure ==
    [][\A e \in Exchanges :
         /\ RejectStep(e) =>
              LET s == ex[e].session
                  before == session[s].items
                  after == session'[s].items
                  user == after[Len(before) + 1]
                  bot == after[Len(before) + 2]
                  text == IF ex'[e].error = << >> THEN <<"Invalid user message">>
                          ELSE ex'[e].error
              IN  /\ Len(after) = Len(before) + 2
                  /\ SubSeq(after, 1, Len(before)) = before
                  /\ session'[s].ref # session[s].ref
                  /\ {user, bot} \cap DOMAIN msgs = {} /\ user # bot
                  /\ msgs'[user].role = "user"
                  /\ msgs'[user].content = ex[e].content
                  /\ msgs'[bot].role = "assistant"
                  /\ msgs'[bot].content = <<"{error:true,message:">> \o text \o <<"}">>
                  /\ ex'[e].notifs = Append(ex[e].notifs, session'[s].ref)
                  /\ Len(ex'[e].notifs) = 1
                  /\ ex'[e].returned = [kind |-> "message", items |-> <<bot>>]
                  /\ ex'[e].chatCalls = 0
                  /\ registry' = registry
         /\ ex[e].pc = "rejected" => ex'[e] = ex[e]
         /\ (ex[e].pc = "extracting" /\ (ex[e].file = "docx"
                \/ \A f \in ExtractionOutcomes(ex[e].content, ex[e].file) : ~f.ok))
              => ex'[e].pc \in {"extracting", "rejected"}]_vars

\* A file of an unsupported type was rejected on a session with a history.
C4_Witness ==
    /\ ex[1].pc = "rejected" /\ ex[1].file = "docx" /\ ex[1].session = 1
    /\ Len(session[1].items) = MaxInitLen + 2
    /\ ex[1].chatCalls = 0 /\ registry = {}

\* C5: an exchange whose handle was invoked while it streamed and that the
\* backend ended with the abort error had, when onError ended it, its
\* placeholder in the list of its session, and has it with streaming =
\* false, none of its messages flagged
\* isError, no entry in the pool, a notification issued by onError, and
\* the text streamed before the stop at the head of the content.
C5_StoppedExchangeEnds ==
    \A e \in Exchanges :
        (ex[e].stopped /\ ex[e].pc = "failed") =>
            LET s == ex[e].session
                bot == msgs[ex[e].botMessage]
            IN  /\ ex[e].listedAtEnd
                /\ bot.streaming = "false"
                /\ bot.isError # "true"
                /\ msgs[ex[e].savedUserMessage].isError # "true"
                /\ msgs[ex[e].userMessage].isError # "true"
                /\ \A entry \in registry : entry.handle # e
                /\ Len(ex[e].notifs) = 2 + ex[e].updates
                /\ Len(bot.content) >= Len(ex[e].stopContent)
                /\ SubSeq(bot.content, 1, Len(ex[e].stopContent)) = ex[e].stopContent

\* C6: the step that sends stores a new list, the former one followed by the
\* user message, whose content is the raw input, and the placeholder, an
\* assistant message with streaming = true and no content, and notifies once
\* with that list.
C6_SendAppendsPair ==
    [][\A e \in Exchanges :
         SendStep(e) =>
            LET s == ex[e].session
                before == session[s].items
                after == session'[s].items
                user == after[Len(before) + 1]
                bot == after[Len(before) + 2]
            IN  /\ Len(after) = Len(before) + 2
                /\ SubSeq(after, 1, Len(before)) = before
                /\ session'[s].ref # session[s].ref
                /\ {user, bot} \cap DOMAIN msgs = {} /\ user # bot
                /\ msgs'[user].role = "user"
                /\ msgs'[user].content = ex[e].content
                /\ msgs'[bot].role = "assistant"
                /\ msgs'[bot].streaming = "true"
                /\ msgs'[bot].content = << >>
                /\ ex'[e].notifs = Append(ex[e].notifs, session'[s].ref)
                /\ Len(ex'[e].notifs) = 1]_vars

\* A URL was fetched and its exchange is streaming.
C6_Witness ==
    /\ ex[1].pc = "streaming" /\ ex[1].content = UrlText /\ ex[1].file = NoFile
    /\ msgs[ex[1].userMessage].content \in Bodies
    /\ msgs[ex[1].savedUserMessage].content = UrlText

\* C7: the new-turn content the backend is called with is the fixed
\* instruction followed by the extracted body when the input was a URL or a
\* file, and the raw input when it was a plain text.
C7_NewTurnContent ==
    \A e \in Exchanges :
        ex[e].chatCalls > 0 =>
            IF ex[e].file # NoFile \/ ex[e].content = UrlText
            THEN /\ msgs[ex[e].userMessage].urlDetail.present
                 /\ \E body \in Bodies :
                       ex[e].sentMessage =
                          <<"Summarize the following text briefly in 200 words or less:",
                            "\n\n">> \o body
            ELSE /\ ~msgs[ex[e].userMessage].urlDetail.present
                 /\ ex[e].sentMessage = ex[e].content

\* A text file was read and its exchange has called the backend.
C7_Witness ==
    ex[1].chatCalls = 1 /\ ex[1].file = "txt" /\ ex[1].sentMessage # ex[1].content

\* C8: the history the backend is called with is the context prompts of the
\* bot, as they are and in their order, followed by the messages the list
\* held at index >= k before the exchange appended anything (all of them
\* when k is unset), in their order, a message of role "URL" as an
\* assistant message of the same content and every other message as it is.
C8_OutgoingHistory ==
    [][\A e \in Exchanges :
         SendStep(e) =>
            LET sess == session[ex[e].session]
                context == sess.bot.context
                k == IF sess.clearContextIndex = NoIndex THEN 0 ELSE sess.clearContextIndex
                history == ex'[e].sendMessages
            IN  /\ Len(history) = Len(context) + Len(sess.items) - k
                /\ \A j \in 1..Len(context) : history[j] = context[j]
                /\ \A i \in 1..Len(sess.items) :
                      i - 1 >= k =>
                         LET message == msgs[sess.items[i]]
                             sent == history[Len(context) + i - k]
                         IN  IF message.role = "URL"
                             THEN /\ sent.role = "assistant"
                                  /\ sent.content = message.content
                                  /\ sent.id = NoId /\ sent.urlDetail = NoDetail
                                  /\ sent.streaming = Undefined /\ sent.isError = Undefined
                             ELSE sent = message]_vars

\* An exchange was sent from a session of two messages whose clear-context
\* index is 1: the history is the prompt and the second message, re-tagged.
C8_Witness ==
    /\ ex[1].pc = "streaming" /\ ex[1].session = 1
    /\ session[1].clearContextIndex = 1 /\ Len(session[1].items) = 4
    /\ msgs[session[1].items[2]].role = "URL"
    /\ Len(ex[1].sendMessages) = 2
    /\ ex[1].sendMessages[2].role = "assistant"

\* C9: the lists an exchange passes to the update callback are all distinct
\* references.
C9_FreshReferences ==
    \A e \in Exchanges :
        \A i, j \in 1..Len(ex[e].notifs) :
            ex[e].notifs[i] = ex[e].notifs[j] => i = j

\* C10: callSession resolves to the last of the normalized messages, the one
\* stored last in the list, when onFinish ran with at least one message; to
\* the placeholder when onError ran; and to undefined only when api.chat
\* resolved before any of the two.
C10_ReturnValue ==
    \A e \in Exchanges :
        LET x == ex[e]
        IN  /\ (x.returnedIn = "finished" /\ x.count >= 1) =>
                  x.returned = [kind |-> "message", items |-> <<NewObj(e, x.count)>>]
            /\ x.returnedIn = "failed" =>
                  x.returned = [kind |-> "message", items |-> <<x.botMessage>>]
            /\ x.returned.kind = "undefined" => x.returnedIn = "streaming"

\* C11: once the user message is built, callSession never ends with an
\* exception: it resolves to a message or to undefined, and what failed in
\* the backend, a failure of api.chat itself included, is written into the
\* content of the placeholder.
C11_NeverThrows ==
    \A e \in Exchanges :
        (ex[e].chatCalls > 0 /\ ex[e].returned # Pending) =>
            /\ ex[e].returned.kind \in {"message", "undefined"}
            /\ (ex[e].returnedIn = "threw" /\ ex[e].error = EmptyString) =>
                  Includes(msgs[ex[e].botMessage].content, "{error:true,message:")

\* C12: createUserMessage makes of a text that is no URL, with no file, a
\* message whose content is the raw input and that has no urlDetail; of a
\* URL, or of a file of a supported extension, a message whose content is
\* the body the extractor returned and whose urlDetail is the envelope the
\* extractor returned without its content field.
C12_Classification ==
    [][\A e \in Exchanges :
         SendStep(e) =>
            LET content == ex[e].content
                file == ex[e].file
                userMessage == msgs'[ex'[e].userMessage]
            IN  IF file = NoFile /\ ~isURL(content)
                THEN /\ userMessage.content = content
                     /\ userMessage.urlDetail = NoDetail
                ELSE \E fetched \in ExtractionOutcomes(content, file) :
                        /\ fetched.ok
                        /\ userMessage.content = fetched.detail.content
                        /\ userMessage.urlDetail.present
                        /\ ~userMessage.urlDetail.hasContent
                        /\ userMessage.urlDetail.content = EmptyString
                        /\ userMessage.urlDetail.url = fetched.detail.url
                        /\ userMessage.urlDetail.type = fetched.detail.type]_vars

\* A PDF was read: the message carries the body, the envelope does not.
C12_Witness ==
    /\ ex[1].pc \in {"streaming", "finished"} /\ ex[1].file = "pdf"
    /\ msgs[ex[1].userMessage].content = ArticleBody
    /\ msgs[ex[1].userMessage].urlDetail.type = "application/pdf"
    /\ ~msgs[ex[1].userMessage].urlDetail.hasContent

\* C13: on a session whose list is empty and whose clearContextIndex is
\* unset, an exchange with a plain text, the only one of its session, calls
\* the backend with exactly the context prompts of the bot as its history;
\* and when onFinish then fires with M1..Mn, the list of the session
\* becomes exactly n new messages with the roles and contents of M1..Mn in
\* their order, none of them the placeholder and none of them streaming.
C13_EmptySessionEndToEnd ==
    [][\A e \in Exchanges :
         LET s == ex[e].session
             plain == ex[e].file = NoFile /\ ~isURL(ex[e].content)
             unset == session[s].clearContextIndex = NoIndex
         IN  /\ (SendStep(e) /\ plain /\ unset /\ session[s].items = << >>) =>
                    ex'[e].sendMessages = session[s].bot.context
             /\ (FinishStep(e) /\ plain /\ unset /\ ex[e].messageIndex = 1
                 /\ ~ex[e].overlapped) =>
                    LET after == session'[s].items
                        n == ex'[e].count
                    IN  /\ Len(after) = n
                        /\ \A i \in 1..n :
                              /\ after[i] \notin DOMAIN msgs
                              /\ msgs'[after[i]].role = Returned(n)[i].role
                              /\ msgs'[after[i]].content = Returned(n)[i].content
                              /\ msgs'[after[i]].streaming = Undefined
                        /\ \A i, j \in 1..n : after[i] = after[j] => i = j]_vars

\* An exchange with a plain text, on a session that was empty, got two
\* messages from onFinish and the list holds two messages.
C13_Witness ==
    /\ ex[1].pc = "finished" /\ ex[1].content = PlainText /\ ex[1].file = NoFile
    /\ ex[1].messageIndex = 1 /\ ex[1].count = 2
    /\ session[ex[1].session].clearContextIndex = NoIndex
    /\ Len(session[ex[1].session].items) = 2
    /\ Len(ex[1].sendMessages) = Len(session[ex[1].session].bot.context)

\* C14: in every state of the pool and for every key (session id, message
\* id): the pool holds at most one entry of the key; addController leaves
\* exactly one entry of the key, with the handle it was given, whether or
\* not the key was present, and the entries of the other keys as they were;
\* remove after addController leaves no entry of the key, so a lookup
\* misses; and remove of an absent key leaves the pool as it was.
C14_PoolAlgebra ==
    \A s \in Sessions, messageId \in PoolMessageIds, handle \in Handles :
        LET sessionId == session[s].id
            key == Key(sessionId, messageId)
            added == addController(registry, sessionId, messageId, handle)
            removed == remove(added, sessionId, messageId)
        IN  /\ Cardinality({entry \in registry : entry.key = key}) <= 1
            /\ {entry \in added : entry.key = key} = {Entry(key, handle)}
            /\ lookup(added, sessionId, messageId) = {handle}
            /\ {entry \in added : entry.key # key} = {entry \in registry : entry.key # key}
            /\ lookup(removed, sessionId, messageId) = {}
            /\ {entry \in removed : entry.key # key} = {entry \in registry : entry.key # key}
            /\ lookup(registry, sessionId, messageId) = {} =>
                  remove(registry, sessionId, messageId) = registry

\* A key was registered twice, the second time with another handle, beside
\* an entry of another key: the pool holds one entry of it.
C14_Witness ==
    /\ lookup(registry, session[1].id, nanoid(BotObj(1))) = {2}
    /\ lookup(registry, session[2].id, IdOrIndex(NoId, 1)) = {0}
    /\ Cardinality(registry) = 2

\* C15: when exchanges overlap on a session, the onFinish of each removes
\* the saved user message and the placeholder of its own exchange and no
\* message of another exchange: a finished exchange has neither of its two
\* in the list, a streaming exchange still has both, and once no exchange of
\* the session is in flight the list holds no message with streaming = true
\* and holds every message onFinish made for a finished exchange.
C15_OverlapRemovesOwnPair ==
    \A e \in Exchanges :
        LET s == ex[e].session
            items == IF s \in Sessions THEN session[s].items ELSE << >>
            quiet == \A o \in Exchanges : ex[o].session = s => ~InFlight(o)
        IN  /\ ex[e].pc = "finished" =>
                 /\ ~Contains(items, ex[e].savedUserMessage)
                 /\ ~Contains(items, ex[e].botMessage)
            /\ ex[e].pc = "streaming" =>
                 /\ Contains(items, ex[e].savedUserMessage)
                 /\ Contains(items, ex[e].botMessage)
            /\ (ex[e].pc = "finished" /\ quiet) =>
                 /\ \A i \in 1..Len(items) : msgs[items[i]].streaming # "true"
                 /\ \A i \in 1..ex[e].count : Contains(items, NewObj(e, i))

\* C16: a step of an exchange on one session leaves every other session as
\* it was: a session b on which no exchange took the step keeps its list
\* (the same array with the same elements), every message of its list and
\* every message object of the exchanges running on it, and the entries the
\* pool holds under its id, so that a handle registered for b stays findable
\* until an event of its own exchange.
C16_SessionsIndependent ==
    [][\A b \in Sessions :
         (\A e \in Exchanges : ex'[e] # ex[e] => ex'[e].session # b) =>
            LET items == session[b].items
                own == UNION {{ex[e].userMessage, ex[e].savedUserMessage, ex[e].botMessage} :
                                 e \in {o \in Exchanges : ex[o].session = b}}
            IN  /\ session'[b] = session[b]
                /\ \A i \in 1..Len(items) : msgs'[items[i]] = msgs[items[i]]
                /\ \A o \in own \cap DOMAIN msgs : msgs'[o] = msgs[o]
                /\ {entry \in registry' : entry.key[1] = session[b].id}
                      = {entry \in registry : entry.key[1] = session[b].id}]_vars

\* Two exchanges ran on different sessions and both registered a handle: one
\* has ended with an error, the other streams and its handle is findable.
C16_Witness ==
    /\ ex[1].session # ex[2].session
    /\ ex[1].pc = "failed" /\ ex[1].controller
    /\ ex[2].pc = "streaming" /\ ex[2].controller
    /\ lookup(registry, session[ex[2].session].id, msgs[ex[2].botMessage].id) = {2}
    /\ Len(session[ex[2].session].items) = 2

\* The most recent non-empty partial among those delivered, the empty
\* string when there is none.
RECURSIVE LastNonEmpty(_)
LastNonEmpty(delivered) ==
    IF delivered = << >> THEN EmptyString
    ELSE IF delivered[Len(delivered)] # EmptyString THEN delivered[Len(delivered)]
    ELSE LastNonEmpty(SubSeq(delivered, 1, Len(delivered) - 1))

\* C17: while an exchange streams, its placeholder has streaming = true and
\* its content is the most recent non-empty partial onUpdate delivered (the
\* empty string when there was none), so an onUpdate with an empty partial
\* leaves the content as it was; and onError makes the content the one held
\* just before it, then a blank line, then the formatted error block, and
\* sets streaming = false.
C17_PlaceholderContent ==
    [][\A e \in Exchanges :
         LET bot == ex'[e].botMessage
             delivered == ex'[e].delivered
         IN  /\ ex'[e].pc = "streaming" =>
                   /\ msgs'[bot].streaming = "true"
                   /\ msgs'[bot].content = LastNonEmpty(delivered)
             /\ (ex[e].pc = "streaming" /\ delivered # ex[e].delivered
                 /\ delivered[Len(delivered)] = EmptyString) =>
                   msgs'[bot].content = msgs[bot].content
             /\ ErrorStep(e) =>
                   /\ msgs'[bot].content =
                         msgs[bot].content \o <<"\n\n">>
                            \o <<"{error:true,message:">> \o ex'[e].error \o <<"}">>
                   /\ msgs'[bot].streaming = "false"]_vars

\* A partial, then an empty partial, then an error: the content is the
\* partial followed by the blank line and the error block.
C17_Witness ==
    /\ ex[1].pc = "failed" /\ ex[1].delivered = <<(<<"Hi", " there">>), EmptyString>>
    /\ msgs[ex[1].botMessage].content =
          <<"Hi", " there", "\n\n", "{error:true,message:", "Network error", "}">>
    /\ msgs[ex[1].botMessage].streaming = "false"

\* C18: every step of an exchange that stores a new list in its session
\* (the append of the error exchange, the append of the user message and the
\* placeholder, the splice of onFinish) makes in that step exactly one call
\* of the update callback, with the very list it stored, and no list of a
\* session changes in any other step; so an exchange that reached the
\* backend and ended has made 1 + (number of onUpdate events) + 1 calls,
\* and one that failed at extraction has made one.
C18_NotifyAfterReassign ==
    [][/\ \A e \in Exchanges :
            LET s == ex'[e].session
            IN  /\ (RejectStep(e) \/ SendStep(e) \/ FinishStep(e)) =>
                      /\ session'[s].ref # session[s].ref
                      /\ ex'[e].notifs = Append(ex[e].notifs, session'[s].ref)
                /\ ex'[e].pc \in {"finished", "failed"} =>
                      Len(ex'[e].notifs) = 1 + Len(ex'[e].delivered) + 1
                /\ ex'[e].pc = "rejected" => Len(ex'[e].notifs) = 1
       /\ \A s \in Sessions :
            session'[s] # session[s] =>
               \E e \in Exchanges :
                  /\ ex'[e].session = s
                  /\ RejectStep(e) \/ SendStep(e) \/ FinishStep(e)]_vars

\* An exchange got two partials and then finished: it has notified four
\* times, the last time with the list its session now holds.
C18_Witness ==
    \E e \in Exchanges :
        /\ ex[e].pc = "finished" /\ Len(ex[e].delivered) = 2
        /\ Len(ex[e].notifs) = 4
        /\ ex[e].notifs[4] = session[ex[e].session].ref

\* C19: no step changes the id of a session, its bot with its context
\* prompts, or its clearContextIndex; and a step of an exchange that runs
\* beside no other exchange of its session leaves every message the list
\* held before the exchange started at its index, the same object with the
\* same role, content and flags.
C19_Frame ==
    [][/\ \A s \in Sessions :
            /\ session'[s].id = session[s].id
            /\ session'[s].bot = session[s].bot
            /\ session'[s].clearContextIndex = session[s].clearContextIndex
       /\ \A e \in Exchanges :
            (InFlight(e) /\ ~ex'[e].overlapped) =>
               LET s == ex[e].session
                   before == session[s].items
                   after == session'[s].items
                   kept == IF ex[e].pc = "streaming" THEN ex[e].messageIndex - 1
                           ELSE Len(before)
               IN  /\ Len(after) >= kept
                   /\ \A i \in 1..kept :
                         /\ after[i] = before[i]
                         /\ msgs'[after[i]] = msgs[before[i]]]_vars

\* An exchange on a session that held two messages and a clear-context
\* index has finished: the two are where they were, as they were.
C19_Witness ==
    /\ ex[1].pc = "finished" /\ ex[1].session = 1 /\ ex[1].messageIndex = 3
    /\ ex[1].count = 2 /\ session[1].clearContextIndex = 2
    /\ Len(session[1].items) = 4
    /\ msgs[session[1].items[1]] = InitMessage(1, 1)
    /\ msgs[session[1].items[2]] = InitMessage(1, 2)

====
